---- MODULE Spec2Model ----
(***************************************************************************)
(* Model of the Kubernetes MCP server: the tracked-resource registry of    *)
(* KubernetesManager (k8s_manager.py), the create/delete tools that use    *)
(* it, and the multi-document apply of yaml_tools.py.                      *)
(*                                                                         *)
(* The cluster API is an opaque remote service: every remote call is       *)
(* answered with one of RemoteOutcomes, chosen nondeterministically.       *)
(***************************************************************************)
EXTENDS Integers, Sequences, FiniteSets, TLC

\* ------------------------------------------------------------------ bounds
\* longest apply batch the model explores
MaxDocs == 2
\* most requests in flight at once
MaxTasks == 2

\* ------------------------------------------------------------------ inputs
Names == {"web", "db"}
Namespaces == {"default", "prod"}

\* the <<name, namespace>> pairs the requests address: two that share the
\* name, two that share the namespace
Targets == {<<"web", "default">>, <<"web", "prod">>, <<"db", "default">>}
OneTarget == {<<"web", "default">>}

\* the kinds the create tools pass to track_resource
Kinds == {"Deployment", "Service", "Pod", "Job", "CronJob", "Ingress"}

\* How the kubernetes client answers one remote call:
\*   "ok"           the call returns the object
\*   "ApiException404"  it raises ApiException with status 404
\*   "ApiException" it raises ApiException with another status (409, 422, 500...)
\*   "Error"        it raises an exception that is no ApiException (the
\*                  transport's connection error, a client-side value error)
RemoteOutcomes == {"ok", "ApiException404", "ApiException", "Error"}
\* the tools outside the apply treat every ApiException alike
CreateOutcomes == {"ok", "ApiException", "Error"}
DeleteOutcomes == {"ok", "ApiException", "Error"}

IsApiException(o) == o \in {"ApiException404", "ApiException"}

None == "None"

VARIABLES
  tracked,   \* k8s_manager._tracked_resources of the server's manager: an
             \* insertion-ordered dict, as a sequence of [key, value]
  op,        \* the operation that has just run ("idle" between requests)
  input,     \* its arguments, and the answers its remote calls got
  before,    \* the registry when it started
  calls,     \* the remote calls it issued, in order
  result,    \* what it handed to the dispatch framework
  catalog,   \* the module-level dicts pod_templates, container_templates and
             \* service_templates as the process holds them now
  configuration,  \* the client configuration the process has loaded: which
             \* loader set it, None while none has
  tasks      \* the requests in flight besides the one that runs: for each,
             \* where its handler is, whether it has recorded its resource,
             \* whether a sweep has issued the delete of what it recorded,
             \* and when it ran among the others

vars == <<tracked, op, input, before, calls, result, catalog, configuration, tasks>>

\* ---------------------------------------------------------------- registry
\* key = f"{namespace}/{name}"
ResourceKey(name, namespace) == <<namespace, "/", name>>

Entry(kind, name, namespace) ==
  [kind |-> kind, name |-> name, namespace |-> namespace]

KeysOf(reg) == {reg[i].key : i \in 1..Len(reg)}

Lookup(reg, key) == (CHOOSE i \in 1..Len(reg) : reg[i].key = key)

\* mutant of track_resource: the registry as a list that every record extends
track_resource_append(reg, kind, name, namespace) ==
  Append(reg, [key |-> ResourceKey(name, namespace),
               value |-> Entry(kind, name, namespace)])

track_resource_first_wins(reg, kind, name, namespace) ==
  IF ResourceKey(name, namespace) \in KeysOf(reg)
    THEN reg
    ELSE Append(reg, [key |-> ResourceKey(name, namespace),
                      value |-> Entry(kind, name, namespace)])

\* self._tracked_resources[key] = {...}: a dict assignment replaces the value
\* of a key that is present (keeping its position) and appends a new key
track_resource(reg, kind, name, namespace) ==
  LET key == ResourceKey(name, namespace)
      value == Entry(kind, name, namespace)
  IN  IF key \in KeysOf(reg)
        THEN [reg EXCEPT ![Lookup(reg, key)].value = value]
        ELSE Append(reg, [key |-> key, value |-> value])

get_tracked_resources(reg) == reg

clear_tracked_resources(reg) == << >>

\* the delete a branch of cleanup_resources issues for a kind; None when no
\* branch of the if/elif chain matches the kind
SweepDelete(kind) ==
  CASE kind = "Deployment" -> [api |-> "apps", verb |-> "delete_namespaced_deployment"]
    [] kind = "Service"    -> [api |-> "core", verb |-> "delete_namespaced_service"]
    [] kind = "Pod"        -> [api |-> "core", verb |-> "delete_namespaced_pod"]
    [] kind = "Job"        -> [api |-> "batch", verb |-> "delete_namespaced_job"]
    [] kind = "Ingress"    -> [api |-> "networking", verb |-> "delete_namespaced_ingress"]
    [] OTHER               -> [api |-> None, verb |-> None]

\* one call of the API facade: the handle, the method, its name and namespace
\* arguments and the object it submits (NoBody for a read or a delete)
NoBody == << >>
RemoteCallWith(api, verb, name, namespace, body) ==
  [api |-> api, verb |-> verb, name |-> name, namespace |-> namespace, body |-> body]
RemoteCall(api, verb, name, namespace) ==
  RemoteCallWith(api, verb, name, namespace, NoBody)

\* the except clause of the sweep's loop body: TRUE when the failure of a
\* delete is caught (and logged) there
SweepCatches(o) == IsApiException(o)

\* the for loop of cleanup_resources from entry i on; o[i] answers the delete
\* of entry i. Gives the calls issued and whether an exception left the loop.
RECURSIVE SweepFrom(_, _, _)
SweepFrom_first_only(reg, o, i) ==
  IF Len(reg) = 0 \/ SweepDelete(reg[1].value.kind).verb = None
    THEN [calls |-> << >>, raised |-> FALSE]
    ELSE [calls |-> <<RemoteCall(SweepDelete(reg[1].value.kind).api,
                                 SweepDelete(reg[1].value.kind).verb,
                                 reg[1].value.name, reg[1].value.namespace)>>,
          raised |-> FALSE]

SweepFrom(reg, o, i) ==
  IF i > Len(reg) THEN [calls |-> << >>, raised |-> FALSE]
  ELSE LET r == reg[i].value
           d == SweepDelete(r.kind)
       IN  IF d.verb = None
             THEN SweepFrom(reg, o, i + 1)
             ELSE LET c == RemoteCall(d.api, d.verb, r.name, r.namespace)
                  IN  IF o[i] = "ok" \/ SweepCatches(o[i])
                        THEN LET rest == SweepFrom(reg, o, i + 1)
                             IN  [calls |-> <<c>> \o rest.calls, raised |-> rest.raised]
                        ELSE [calls |-> <<c>>, raised |-> TRUE]

\* ------------------------------------------------------------- results
\* What the dispatch framework receives from a tool: a text (a sequence of
\* lines, each line a tuple of its parts) or the exception that escaped.
Text(t) == [status |-> "text", text |-> t]
Raised(e) == [status |-> "raised", text |-> <<<<e>>>>]

\* "\n".join(lines)
JoinLines(lines) == lines

\* --------------------------------------------------------------- templates
\* A configuration is a dict: a function from its keys to their values.
\* None and the empty dict are both falsy and are the empty function.
NoConfig == << >>
Truthy(cfg) == DOMAIN cfg # {}

\* mutant of Merge: a key of the base keeps its value
Merge_base_wins(base, overrides) ==
  [k \in DOMAIN base \cup DOMAIN overrides |->
     IF k \in DOMAIN base THEN base[k] ELSE overrides[k]]

\* {**base, **overrides}
Merge(base, overrides) ==
  [k \in DOMAIN base \cup DOMAIN overrides |->
     IF k \in DOMAIN overrides THEN overrides[k] ELSE base[k]]

\* cfg.get(k, default)
Get(cfg, k, default) == IF k \in DOMAIN cfg THEN cfg[k] ELSE default

SmallResources ==
  [requests |-> [cpu |-> "100m", memory |-> "128Mi"],
   limits |-> [cpu |-> "500m", memory |-> "512Mi"]]
LargeResources ==
  [requests |-> [cpu |-> "200m", memory |-> "256Mi"],
   limits |-> [cpu |-> "1000m", memory |-> "1Gi"]]

ContainerPortOf(p, n) == [containerPort |-> p, protocol |-> "TCP", name |-> n]

\* pod_templates.ContainerTemplate: member name -> value
PodTemplateEnum ==
  [NGINX |-> "NGINX", REDIS |-> "REDIS", POSTGRES |-> "POSTGRES",
   MYSQL |-> "MYSQL", CUSTOM |-> "CUSTOM"]

pod_templates ==
  [NGINX |-> [image |-> "nginx:latest",
              ports |-> <<ContainerPortOf(80, "http")>>,
              resources |-> SmallResources,
              restartPolicy |-> "Always"],
   REDIS |-> [image |-> "redis:latest",
              ports |-> <<ContainerPortOf(6379, "redis")>>,
              resources |-> SmallResources,
              restartPolicy |-> "Always"],
   POSTGRES |-> [image |-> "postgres:latest",
                 ports |-> <<ContainerPortOf(5432, "postgres")>>,
                 env |-> <<[name |-> "POSTGRES_PASSWORD", value |-> "postgres"]>>,
                 resources |-> LargeResources,
                 restartPolicy |-> "Always"],
   MYSQL |-> [image |-> "mysql:latest",
              ports |-> <<ContainerPortOf(3306, "mysql")>>,
              env |-> <<[name |-> "MYSQL_ROOT_PASSWORD", value |-> "mysql"]>>,
              resources |-> LargeResources,
              restartPolicy |-> "Always"],
   CUSTOM |-> [image |-> "",
               ports |-> << >>,
               env |-> << >>,
               resources |-> SmallResources,
               restartPolicy |-> "Always"]]

\* container_templates.ContainerTemplate: member name -> value
ContainerTemplateEnum ==
  [NGINX |-> "nginx", NODEJS |-> "nodejs", PYTHON |-> "python", CUSTOM |-> "custom"]

container_templates ==
  [NGINX |-> [image |-> "nginx:latest",
              ports |-> <<ContainerPortOf(80, "http")>>,
              resources |-> SmallResources],
   NODEJS |-> [image |-> "node:18",
               ports |-> <<ContainerPortOf(3000, "http")>>,
               resources |-> LargeResources],
   PYTHON |-> [image |-> "python:3.9",
               ports |-> <<ContainerPortOf(8000, "http")>>,
               resources |-> LargeResources],
   CUSTOM |-> [resources |-> SmallResources]]

\* service_templates.ServiceType: member name -> value
ServiceTypeEnum ==
  [CLUSTER_IP |-> "ClusterIP", NODE_PORT |-> "NodePort",
   LOAD_BALANCER |-> "LoadBalancer", EXTERNAL_NAME |-> "ExternalName"]

service_templates ==
  [CLUSTER_IP |-> [type |-> "ClusterIP",
                   ports |-> <<[port |-> 80, targetPort |-> 80, protocol |-> "TCP", name |-> "http"]>>,
                   selector |-> NoConfig,
                   sessionAffinity |-> "None"],
   NODE_PORT |-> [type |-> "NodePort",
                  ports |-> <<[port |-> 80, targetPort |-> 80, nodePort |-> 30000,
                               protocol |-> "TCP", name |-> "http"]>>,
                  selector |-> NoConfig,
                  sessionAffinity |-> "None"],
   LOAD_BALANCER |-> [type |-> "LoadBalancer",
                      ports |-> <<[port |-> 80, targetPort |-> 80, protocol |-> "TCP", name |-> "http"]>>,
                      selector |-> NoConfig,
                      sessionAffinity |-> "None",
                      externalTrafficPolicy |-> "Cluster"],
   EXTERNAL_NAME |-> [type |-> "ExternalName",
                      externalName |-> "",
                      ports |-> <<[port |-> 80, protocol |-> "TCP", name |-> "http"]>>]]

\* Enum(value): the members whose value is the given identifier (none: ValueError)
EnumMembers(enum, value) == {m \in DOMAIN enum : enum[m] = value}
EnumOf(enum, value) == CHOOSE m \in DOMAIN enum : enum[m] = value

\* ', '.join(t.name for t in Enum), behind the message's head
InvalidTemplateText(head, order) ==
  Text(<<<<head>> \o order>>)

PodTemplateOrder == <<"NGINX", "REDIS", "POSTGRES", "MYSQL", "CUSTOM">>
ContainerTemplateOrder == <<"NGINX", "NODEJS", "PYTHON", "CUSTOM">>
ServiceTypeOrder == <<"CLUSTER_IP", "NODE_PORT", "LOAD_BALANCER", "EXTERNAL_NAME">>


\* ---------------------------------------------------------------- builders
\* A builder gives [raised, body]: raised names the exception the building
\* code raises before any remote call ("None" when it raises nothing).
Built(body) == [raised |-> None, body |-> body]
BuildRaised(e) == [raised |-> e, body |-> NoConfig]

Labels_app_only(name) == "app" :> name

\* metadata.labels of every built resource
Labels(name) == ("mcp-managed" :> "true") @@ ("app" :> name)

\* port["containerPort"] / port["targetPort"] of some entry is missing
LacksKey(entries, key) == \E i \in 1..Len(entries) : key \notin DOMAIN entries[i]

V1ContainerPort(port) ==
  [container_port |-> port["containerPort"],
   protocol |-> Get(port, "protocol", "TCP"),
   name |-> Get(port, "name", None)]

V1EnvVar(env) ==
  [name |-> env["name"], value |-> Get(env, "value", None)]

V1ResourceRequirements(resources) ==
  [requests |-> Get(resources, "requests", NoConfig),
   limits |-> Get(resources, "limits", NoConfig)]

\* the container built from a merged configuration; withResources is the
\* tool's test for building the resource requirements
V1Container(name, cfg, withResources) ==
  [name |-> name,
   image |-> cfg["image"],
   ports |-> [i \in 1..Len(Get(cfg, "ports", << >>)) |->
                V1ContainerPort(Get(cfg, "ports", << >>)[i])],
   env |-> [i \in 1..Len(Get(cfg, "env", << >>)) |->
              V1EnvVar(Get(cfg, "env", << >>)[i])],
   resources |-> IF withResources THEN V1ResourceRequirements(cfg["resources"]) ELSE NoConfig,
   command |-> Get(cfg, "command", None),
   args |-> Get(cfg, "args", None)]

\* the KeyError the container-building code raises, if any
ContainerKeyError(cfg) ==
  IF LacksKey(Get(cfg, "ports", << >>), "containerPort") THEN "KeyError"
  ELSE IF LacksKey(Get(cfg, "env", << >>), "name") THEN "KeyError"
  ELSE IF "image" \notin DOMAIN cfg THEN "KeyError"
  ELSE None

\* create_pod: the configuration the pod is built from
PodConfigOf(template_enum, custom_config) ==
  IF Truthy(custom_config)
    THEN Merge(catalog.pod[template_enum], custom_config)
    ELSE catalog.pod[template_enum]

PodRestartPolicy(cfg) == Get(cfg, "restartPolicy", "Always")

BuildPod(name, namespace, cfg) ==
  IF ContainerKeyError(cfg) # None THEN BuildRaised(ContainerKeyError(cfg))
  ELSE Built([kind |-> "Pod", name |-> name, namespace |-> namespace,
              labels |-> Labels(name),
              containers |-> <<V1Container(name, cfg, Truthy(Get(cfg, "resources", NoConfig)))>>,
              restart_policy |-> PodRestartPolicy(cfg)])

\* create_job / create_cronjob: the configuration the container is built from
ContainerConfigOf(template_enum, custom_config) ==
  IF Truthy(custom_config)
    THEN Merge(catalog.container[template_enum], custom_config)
    ELSE catalog.container[template_enum]

JobRestartPolicy(cfg) == "OnFailure"

BuildJob(kind, name, namespace, cfg) ==
  IF ContainerKeyError(cfg) # None THEN BuildRaised(ContainerKeyError(cfg))
  ELSE Built([kind |-> kind, name |-> name, namespace |-> namespace,
              labels |-> Labels(name),
              containers |-> <<V1Container(name, cfg, "resources" \in DOMAIN cfg)>>,
              restart_policy |-> JobRestartPolicy(cfg)])

\* create_service: the configuration the service is built from; it raises
\* KeyError when a default is taken from a template that lacks the key
ServiceConfigRaises(type_enum, ports, selector, custom_config) ==
  /\ ~Truthy(custom_config)
  /\ \/ Len(ports) = 0 /\ "ports" \notin DOMAIN catalog.service[type_enum]
     \/ ~Truthy(selector) /\ "selector" \notin DOMAIN catalog.service[type_enum]

ServiceConfigOf(type_enum, ports, selector, custom_config) ==
  IF Truthy(custom_config)
    THEN Merge(catalog.service[type_enum], custom_config)
    ELSE Merge(catalog.service[type_enum],
               [ports |-> IF Len(ports) > 0 THEN ports
                          ELSE catalog.service[type_enum]["ports"],
                selector |-> IF Truthy(selector) THEN selector
                             ELSE catalog.service[type_enum]["selector"]])

V1ServicePort(port) ==
  [port |-> port["port"],
   target_port |-> port["targetPort"],
   node_port |-> Get(port, "nodePort", 0),
   protocol |-> Get(port, "protocol", "TCP"),
   name |-> Get(port, "name", None)]

BuildService(name, namespace, type_enum, ports, selector, custom_config) ==
  IF ServiceConfigRaises(type_enum, ports, selector, custom_config)
    THEN BuildRaised("KeyError")
  ELSE LET cfg == ServiceConfigOf(type_enum, ports, selector, custom_config)
       IN  IF LacksKey(cfg["ports"], "port") \/ LacksKey(cfg["ports"], "targetPort")
                \/ "selector" \notin DOMAIN cfg
             THEN BuildRaised("KeyError")
           ELSE Built([kind |-> "Service", name |-> name, namespace |-> namespace,
                       labels |-> Labels(name),
                       type |-> cfg["type"],
                       ports |-> [i \in 1..Len(cfg["ports"]) |-> V1ServicePort(cfg["ports"][i])],
                       selector |-> cfg["selector"],
                       session_affinity |-> Get(cfg, "sessionAffinity", None),
                       external_traffic_policy |-> Get(cfg, "externalTrafficPolicy", None)])

\* create_deployment builds from its arguments, no template
BuildDeployment(name, namespace, image) ==
  Built([kind |-> "Deployment", name |-> name, namespace |-> namespace,
         labels |-> Labels(name),
         containers |-> <<[name |-> name, image |-> image, ports |-> << >>,
                           env |-> << >>, resources |-> NoConfig,
                           command |-> None, args |-> None]>>,
         restart_policy |-> "Always"])

\* expose_deployment builds the service of a deployment
BuildExposedService(deployment_name, namespace, port, service_type) ==
  Built([kind |-> "Service", name |-> deployment_name, namespace |-> namespace,
         labels |-> Labels(deployment_name),
         type |-> service_type,
         ports |-> <<[port |-> port, target_port |-> port, protocol |-> "TCP"]>>,
         selector |-> [app |-> deployment_name]])

\* create_ingress with rules that carry no paths
BuildIngress(name, namespace) ==
  Built([kind |-> "Ingress", name |-> name, namespace |-> namespace,
         labels |-> Labels(name), rules |-> << >>])

\* ----------------------------------------------------------------- actions
\* main(): the manager is constructed with an empty registry, the tools are
\* registered and the server waits for a request
Init ==
  /\ tracked = << >>
  /\ op = "idle"
  /\ input = NoConfig
  /\ before = << >>
  /\ calls = << >>
  /\ result = Text(<< >>)
  /\ catalog = [pod |-> pod_templates, container |-> container_templates,
                service |-> service_templates]
  /\ configuration = "kubeconfig"
  /\ tasks = << >>

\* mcp.run(): the server runs only once the manager was constructed; the
\* dispatch framework has taken what the operation handed it
\* and the server waits for the next request; the registry stays
Dispatch ==
  /\ configuration # None
  /\ op # "idle"
  /\ op' = "idle"
  /\ input' = NoConfig
  /\ before' = << >>
  /\ calls' = << >>
  /\ result' = Text(<< >>)
  /\ tracked' = tracked
  /\ catalog' = catalog
  /\ configuration' = configuration
  /\ tasks' = tasks

\* the tools that resolve a template of the catalog
TemplateTools == {"create_pod", "create_service", "create_job", "create_cronjob"}

\* a handler gets the event loop when nothing else runs, and records what
\* ran, on what, from which registry; only a template tool has a reference
\* into the catalog
Started(tool, args) ==
  /\ op = "idle"
  /\ op' = tool
  /\ input' = args
  /\ before' = tracked
  /\ IF tool \in TemplateTools THEN TRUE ELSE catalog' = catalog
  /\ configuration' = configuration

\* an operation that arrives while no other request is in flight and runs
\* until it returns (no tool of these suspends before it returns)
Ran(tool, args) ==
  /\ Started(tool, args)
  /\ tasks' = tasks

\* KubernetesManager.track_resource called on the server's manager
TrackResource(TG) ==
  \E kind \in Kinds, name \in Names, namespace \in Namespaces :
    /\ <<name, namespace>> \in TG
    /\ tracked' = track_resource(tracked, kind, name, namespace)
    /\ Ran("track_resource", Entry(kind, name, namespace))
    /\ calls' = << >>
    /\ result' = Text(<<<<"None">>>>)

\* KubernetesManager.cleanup_resources: the loop, then the clear that only
\* runs when no exception left the loop
CleanupResources ==
  \E o \in [1..Len(tracked) -> DeleteOutcomes] :
    LET s == SweepFrom(tracked, o, 1)
    IN  /\ tracked' = IF s.raised THEN tracked ELSE clear_tracked_resources(tracked)
        /\ Ran("cleanup_resources", [remote |-> o])
        /\ calls' = s.calls
        /\ result' = IF s.raised THEN Raised("Error") ELSE Text(<<<<"None">>>>)

\* `await x` where x is what a method of the synchronous kubernetes client
\* returned: the remote call has been made and has returned a plain object,
\* which is not awaitable, so the await raises TypeError; a call that raised
\* never reaches the await
AwaitResult(o) == IF o = "ok" THEN "TypeError" ELSE o

\* what the tool sees of a remote call answered with o
Seen(awaited, o) == IF awaited THEN AwaitResult(o) ELSE o

\* TRUE when the except clause of a tool catches the failure
ToolCatches(o) == IsApiException(o)

\* the registry after the try block of a create tool whose call was seen as o
TrackAfterCreate(reg, kind, name, namespace, o) ==
  IF o = "ok" THEN track_resource(reg, kind, name, namespace) ELSE reg

\* the try block that ends every create tool:
\*   response = [await] api.create_...(namespace, body)
\*   k8s_manager.track_resource(kind, name, namespace)
\*   return <success text>
\* except ApiException as e: return <error text>
CreateTail(awaited, call, kind, name, namespace, o) ==
  /\ calls' = <<call>>
  /\ tracked' = TrackAfterCreate(tracked, kind, name, namespace, Seen(awaited, o))
  /\ result' = IF Seen(awaited, o) = "ok"
                 THEN Text(<<<<kind, name, "created">>>>)
               ELSE IF ToolCatches(Seen(awaited, o))
                 THEN Text(<<<<"Error creating", kind, o>>>>)
               ELSE Raised(Seen(awaited, o))

\* mutant of NoCall: the tool asks the cluster before it returns
NoCall_asks(res) ==
  /\ calls' = <<RemoteCall("core", "list_namespace", None, None)>>
  /\ tracked' = tracked
  /\ result' = res

\* a tool that ends before any remote call
NoCall(res) ==
  /\ calls' = << >>
  /\ tracked' = tracked
  /\ result' = res

\* deployment_tools.create_deployment
CreateDeployment(TG) ==
  \E name \in Names, namespace \in Namespaces, o \in CreateOutcomes :
    /\ <<name, namespace>> \in TG
    /\ Ran("create_deployment", [name |-> name, namespace |-> namespace, remote |-> o])
    /\ CreateTail(FALSE,
                  RemoteCallWith("apps", "create_namespaced_deployment", None, namespace,
                                 BuildDeployment(name, namespace, "nginx:latest").body),
                  "Deployment", name, namespace, o)

\* deployment_tools.expose_deployment for a service type whose creation the
\* tool does not wait on
ExposeDeployment(TG, ST) ==
  \E name \in Names, namespace \in Namespaces, service_type \in ST, o \in CreateOutcomes :
    /\ <<name, namespace>> \in TG
    /\ Ran("expose_deployment", [name |-> name, namespace |-> namespace,
                                 template |-> service_type, remote |-> o])
    /\ CreateTail(FALSE,
                  RemoteCallWith("core", "create_namespaced_service", None, namespace,
                                 BuildExposedService(name, namespace, 80, service_type).body),
                  "Service", name, namespace, o)

\* What a template tool resolved, as recorded for the run: whether it got as
\* far as a configuration, the configuration, and whether that is the stored
\* dict itself (`pod_config = template_config`) or a new dict ({**a, **b})
Resolved(cfg, stored) == [resolved |-> TRUE, config |-> cfg, is_stored |-> stored]
Unresolved == [resolved |-> FALSE, config |-> NoConfig, is_stored |-> FALSE]

\* mutant of TemplateAfterUse: the tool marks the configuration it holds
TemplateAfterUse_marked(stored, cfg, is_stored) ==
  IF is_stored THEN Merge(stored, [used |-> TRUE]) ELSE stored

\* The stored template after a tool has built its resource from cfg. Between
\* resolving cfg and the remote call the tools only read it (.get(), [key]),
\* so the stored dict keeps its value, also when cfg is that very dict.
TemplateAfterUse(stored, cfg, is_stored) == stored

\* pod_tools.create_pod
CreatePod(TG, T, C) ==
  \E name \in Names, namespace \in Namespaces, template \in T, custom_config \in C,
     o \in CreateOutcomes :
    LET valid == EnumMembers(PodTemplateEnum, template) # {}
        e == EnumOf(PodTemplateEnum, template)
        cfg == PodConfigOf(e, custom_config)
        is_stored == ~Truthy(custom_config)
    IN
    /\ <<name, namespace>> \in TG
    /\ Ran("create_pod", [name |-> name, namespace |-> namespace, template |-> template,
                          custom_config |-> custom_config, remote |-> o,
                          resolution |-> IF valid THEN Resolved(cfg, is_stored)
                                         ELSE Unresolved])
    /\ catalog' = IF valid
                    THEN [catalog EXCEPT !.pod[e] = TemplateAfterUse(@, cfg, is_stored)]
                    ELSE catalog
    /\ IF ~valid
         THEN NoCall(InvalidTemplateText("Invalid template. Must be one of:",
                                         PodTemplateOrder))
       ELSE LET b == BuildPod(name, namespace, cfg)
            IN  IF b.raised # None THEN NoCall(Raised(b.raised))
                ELSE CreateTail(FALSE,
                                RemoteCallWith("core", "create_namespaced_pod", None,
                                               namespace, b.body),
                                "Pod", name, namespace, o)

\* service_tools.create_service (ports left out by the caller)
CreateService(TG, T, S, C) ==
  \E name \in Names, namespace \in Namespaces, service_type \in T, selector \in S,
     custom_config \in C, o \in CreateOutcomes :
    LET valid == EnumMembers(ServiceTypeEnum, service_type) # {}
        e == EnumOf(ServiceTypeEnum, service_type)
        raises == ServiceConfigRaises(e, << >>, selector, custom_config)
        cfg == ServiceConfigOf(e, << >>, selector, custom_config)
    IN
    /\ <<name, namespace>> \in TG
    /\ Ran("create_service", [name |-> name, namespace |-> namespace,
                              template |-> service_type, selector |-> selector,
                              custom_config |-> custom_config, remote |-> o,
                              resolution |-> IF valid /\ ~raises THEN Resolved(cfg, FALSE)
                                             ELSE Unresolved])
    /\ catalog' = IF valid /\ ~raises
                    THEN [catalog EXCEPT !.service[e] = TemplateAfterUse(@, cfg, FALSE)]
                    ELSE catalog
    /\ IF ~valid
         THEN NoCall(InvalidTemplateText("Invalid service type. Must be one of:",
                                         ServiceTypeOrder))
       ELSE LET b == BuildService(name, namespace, e, << >>, selector, custom_config)
            IN  IF b.raised # None THEN NoCall(Raised(b.raised))
                ELSE CreateTail(TRUE,
                                RemoteCallWith("core", "create_namespaced_service", None,
                                               namespace, b.body),
                                "Service", name, namespace, o)

\* the body job_tools.create_job and cronjob_tools.create_cronjob share
CreateFromContainerTemplate(tool, kind, verb, TG, T, C) ==
  \E name \in Names, namespace \in Namespaces, template \in T, custom_config \in C,
     o \in CreateOutcomes :
    LET valid == EnumMembers(ContainerTemplateEnum, template) # {}
        e == EnumOf(ContainerTemplateEnum, template)
        cfg == ContainerConfigOf(e, custom_config)
        is_stored == ~Truthy(custom_config)
    IN
    /\ <<name, namespace>> \in TG
    /\ Ran(tool, [name |-> name, namespace |-> namespace, template |-> template,
                  custom_config |-> custom_config, remote |-> o,
                  resolution |-> IF valid THEN Resolved(cfg, is_stored) ELSE Unresolved])
    /\ catalog' = IF valid
                    THEN [catalog EXCEPT !.container[e] = TemplateAfterUse(@, cfg, is_stored)]
                    ELSE catalog
    /\ IF ~valid
         THEN NoCall(InvalidTemplateText("Invalid template. Must be one of:",
                                         ContainerTemplateOrder))
       ELSE LET b == BuildJob(kind, name, namespace, cfg)
            IN  IF b.raised # None THEN NoCall(Raised(b.raised))
                ELSE CreateTail(TRUE,
                                RemoteCallWith("batch", verb, None, namespace, b.body),
                                kind, name, namespace, o)

\* job_tools.create_job
CreateJob(TG, T, C) ==
  CreateFromContainerTemplate("create_job", "Job", "create_namespaced_job", TG, T, C)

\* cronjob_tools.create_cronjob
CreateCronJob(TG, T, C) ==
  CreateFromContainerTemplate("create_cronjob", "CronJob", "create_namespaced_cron_job",
                              TG, T, C)

\* ingress_tools.create_ingress
CreateIngress(TG) ==
  \E name \in Names, namespace \in Namespaces, o \in CreateOutcomes :
    /\ <<name, namespace>> \in TG
    /\ Ran("create_ingress", [name |-> name, namespace |-> namespace, remote |-> o])
    /\ CreateTail(TRUE,
                  RemoteCallWith("networking", "create_namespaced_ingress", None, namespace,
                                 BuildIngress(name, namespace).body),
                  "Ingress", name, namespace, o)

\* the body shared by the delete tools:
\*   try: response = [await] api.delete_...(name, namespace); return <text>
\*   except ApiException as e: return <error text>
RegistryAfterDelete_untracking(reg, kind, name, namespace, o) ==
  IF o = "ok"
    THEN SelectSeq(reg, LAMBDA e : ~(/\ e.value.kind = kind
                                     /\ e.value.name = name
                                     /\ e.value.namespace = namespace))
    ELSE reg

\* the registry after a delete tool: the tool calls the API and formats the
\* answer, it never touches the manager's registry
RegistryAfterDelete(reg, kind, name, namespace, o) == reg

DeleteTool(tool, awaited, api, verb, kind, TG) ==
  \E name \in Names, namespace \in Namespaces, o \in DeleteOutcomes :
    /\ <<name, namespace>> \in TG
    /\ Ran(tool, [name |-> name, namespace |-> namespace, remote |-> o])
    /\ calls' = <<RemoteCall(api, verb, name, namespace)>>
    /\ tracked' = RegistryAfterDelete(tracked, kind, name, namespace, o)
    /\ result' = IF Seen(awaited, o) = "ok"
                   THEN Text(<<<<kind, name, "deleted">>>>)
                 ELSE IF ToolCatches(Seen(awaited, o))
                   THEN Text(<<<<"Error deleting", kind, o>>>>)
                 ELSE Raised(Seen(awaited, o))

DeleteDeployment(TG) ==
  DeleteTool("delete_deployment", FALSE, "apps", "delete_namespaced_deployment",
             "Deployment", TG)
DeletePod(TG) ==
  DeleteTool("delete_pod", FALSE, "core", "delete_namespaced_pod", "Pod", TG)
DeleteService(TG) ==
  DeleteTool("delete_service", TRUE, "core", "delete_namespaced_service", "Service", TG)
DeleteJob(TG) ==
  DeleteTool("delete_job", TRUE, "batch", "delete_namespaced_job", "Job", TG)
DeleteCronJob(TG) ==
  DeleteTool("delete_cronjob", TRUE, "batch", "delete_namespaced_cron_job", "CronJob", TG)
DeleteIngress(TG) ==
  DeleteTool("delete_ingress", TRUE, "networking", "delete_namespaced_ingress",
             "Ingress", TG)

\* ------------------------------------------------------------- apply_yaml
Absent == "<absent>"

\* a document of the batch, as yaml.safe_load_all yields it: null/empty, or a
\* mapping whose kind and metadata.namespace may be missing
Document(empty, kind, name, namespace) ==
  [empty |-> empty, kind |-> kind, name |-> name, namespace |-> namespace]

NullDocument == Document(TRUE, Absent, Absent, Absent)

Documents ==
  {NullDocument,
   Document(FALSE, Absent, "cm1", "default"),
   Document(FALSE, "ConfigMap", "cm1", "default"),
   Document(FALSE, "ConfigMap", "cm1", Absent),
   Document(FALSE, "ConfigMap", "cm2", "default"),
   Document(FALSE, "Secret", "s1", "default")}

Batches == UNION {[1..n -> Documents] : n \in 1..MaxDocs}

\* What one document does: the remote calls it issues, the answer each got,
\* the lines it appends to results, the exception it raises ("None": none)
\* and the KubernetesManager objects it constructs.
DocRun(cs, as, ls, e, k) ==
  [calls |-> cs, answers |-> as, lines |-> ls, raised |-> e, constructed |-> k]

\* mutant of EffectiveNamespace: the document's own namespace is used
EffectiveNamespace_embedded(doc, namespace) == doc.namespace

\* if namespace: resource["metadata"]["namespace"] = namespace
EffectiveNamespace(doc, namespace) ==
  IF namespace # Absent THEN namespace ELSE doc.namespace

ReadConfigMap(doc, ns) == RemoteCall("core", "read_namespaced_config_map", doc.name, ns)
ReplaceConfigMap(doc, ns) ==
  RemoteCallWith("core", "replace_namespaced_config_map", doc.name, ns,
                 [kind |-> doc.kind, name |-> doc.name, namespace |-> ns])
CreateConfigMap(doc, ns) ==
  RemoteCallWith("core", "create_namespaced_config_map", None, ns,
                 [kind |-> doc.kind, name |-> doc.name, namespace |-> ns])

UpdatedLine(doc) == <<"ConfigMap", doc.name, "updated successfully">>
CreatedLine(doc) == <<"ConfigMap", doc.name, "created successfully">>
\* mutant of UnsupportedLine: the line does not name the kind
UnsupportedLine_bare(doc) == <<"Unsupported resource kind:">>

UnsupportedLine(doc) == <<"Unsupported resource kind:", doc.kind>>

\* the handler `except ApiException as e` of the ConfigMap branch, entered
\* after the calls cs (answered as) of the try block: a 404 issues the
\* create, whose failure nothing in the branch catches; any other status is
\* raised again
ConfigMapHandler(doc, ns, cs, as, e) ==
  IF e = "ApiException404"
    THEN {DocRun(Append(cs, CreateConfigMap(doc, ns)), Append(as, c),
                 IF c = "ok" THEN <<CreatedLine(doc)>> ELSE << >>,
                 IF c = "ok" THEN None ELSE c, 1) : c \in RemoteOutcomes}
    ELSE {DocRun(cs, as, << >>, e, 1)}

\* the ConfigMap branch: read, then replace, inside one try block
ConfigMapRuns(doc, namespace) ==
  LET ns == EffectiveNamespace(doc, namespace)
      rd == ReadConfigMap(doc, ns)
      rp == ReplaceConfigMap(doc, ns)
  IN  IF ns = Absent THEN {DocRun(<< >>, << >>, << >>, "KeyError", 1)}
      ELSE UNION {
        IF r = "ok"
          THEN UNION {
            IF w = "ok" THEN {DocRun(<<rd, rp>>, <<r, w>>, <<UpdatedLine(doc)>>, None, 1)}
            ELSE IF IsApiException(w) THEN ConfigMapHandler(doc, ns, <<rd, rp>>, <<r, w>>, w)
            ELSE {DocRun(<<rd, rp>>, <<r, w>>, << >>, w, 1)}
            : w \in RemoteOutcomes}
        ELSE IF IsApiException(r) THEN ConfigMapHandler(doc, ns, <<rd>>, <<r>>, r)
        ELSE {DocRun(<<rd>>, <<r>>, << >>, r, 1)}
        : r \in RemoteOutcomes}

\* the body of the for loop, for one document
DocumentRuns(doc, namespace) ==
  IF doc.empty THEN {DocRun(<< >>, << >>, << >>, None, 0)}
  ELSE IF doc.kind = Absent THEN {DocRun(<< >>, << >>, << >>, "KeyError", 0)}
  ELSE IF doc.kind = "ConfigMap" THEN ConfigMapRuns(doc, namespace)
  ELSE {DocRun(<< >>, << >>, <<UnsupportedLine(doc)>>, None, 0)}

\* a run of the loop tagged with the document each call and line came from
\* and with the last position the iteration reached (i is past the batch when
\* the generator was exhausted)
Tagged(d, i) ==
  [calls |-> d.calls, answers |-> d.answers, lines |-> d.lines, raised |-> d.raised,
   constructed |-> d.constructed,
   call_doc |-> [c \in 1..Len(d.calls) |-> i],
   line_doc |-> [l \in 1..Len(d.lines) |-> i],
   reached |-> i]

\* mutant of Then: what the rest of the loop did comes first
Then_swapped(d, r) ==
  [calls |-> r.calls \o d.calls, answers |-> r.answers \o d.answers,
   lines |-> r.lines \o d.lines, raised |-> r.raised,
   constructed |-> d.constructed + r.constructed,
   call_doc |-> r.call_doc \o d.call_doc,
   line_doc |-> r.line_doc \o d.line_doc,
   reached |-> r.reached]

\* the run of one document followed by the run of the rest of the loop
Then(d, r) ==
  [calls |-> d.calls \o r.calls, answers |-> d.answers \o r.answers,
   lines |-> d.lines \o r.lines, raised |-> r.raised,
   constructed |-> d.constructed + r.constructed,
   call_doc |-> d.call_doc \o r.call_doc,
   line_doc |-> d.line_doc \o r.line_doc,
   reached |-> r.reached]

\* TRUE when the loop goes on to the next document after a document's run
LoopGoesOn(d) == d.raised = None

\* the for loop from document i on: an exception a document raises leaves it
RECURSIVE LoopRuns(_, _, _)
LoopRuns(batch, namespace, i) ==
  IF i > Len(batch) THEN {Tagged(DocRun(<< >>, << >>, << >>, None, 0), i)}
  ELSE UNION {
    IF LoopGoesOn(d)
      THEN {Then(Tagged(d, i), r) : r \in LoopRuns(batch, namespace, i + 1)}
      ELSE {Tagged(d, i)}
    : d \in DocumentRuns(batch[i], namespace)}

\* what apply_yaml returns after a run of the loop: the joined results, or the
\* text of its outer `except Exception`, which drops the results
ApplyText(run) ==
  IF run.raised = None THEN Text(JoinLines(run.lines))
  ELSE Text(<<<<"Error applying YAML:", run.raised>>>>)

\* mutant of RegistryAfterApply: the apply records what it created
RegistryAfterApply_tracking(reg, run) ==
  IF \E c \in 1..Len(run.calls) :
       run.calls[c].verb = "create_namespaced_config_map" /\ run.answers[c] = "ok"
    THEN track_resource(reg, "ConfigMap", "cm1", "default")
    ELSE reg

\* The registry of the server's manager after an apply. apply_yaml is a
\* module-level function that is never handed that manager: each ConfigMap
\* document constructs a KubernetesManager of its own (whose registry starts
\* empty) only to take its core API handle, and track_resource is not called.
RegistryAfterApply(reg, run) == reg

\* yaml_tools.apply_yaml
ApplyYaml ==
  \E batch \in Batches, namespace \in {Absent, "prod"} :
    \E run \in LoopRuns(batch, namespace, 1) :
      /\ Ran("apply_yaml", [batch |-> batch, namespace |-> namespace,
                            remote |-> run.answers, call_doc |-> run.call_doc,
                            line_doc |-> run.line_doc, raised |-> run.raised,
                            constructed |-> run.constructed,
                            results |-> run.lines, reached |-> run.reached])
      /\ calls' = run.calls
      /\ result' = ApplyText(run)
      /\ tracked' = RegistryAfterApply(tracked, run)

\* --------------------------------------------------------- specifications
\* Spec: the registry under its own operations
NotATemplate == "busybox"

Next ==
  \/ TrackResource(Targets)
  \/ CleanupResources
  \/ Dispatch

Spec == Init /\ [][Next]_vars

\* ToolSpec: the registry under the tools that create and delete resources,
\* each template tool with one valid and one unknown identifier
ToolNext ==
  \/ CleanupResources
  \/ CreateDeployment(Targets)
  \/ ExposeDeployment(Targets, {"ClusterIP"})
  \/ CreatePod(Targets, {"NGINX", NotATemplate}, {NoConfig})
  \/ CreateService(Targets, {"ClusterIP", NotATemplate}, {NoConfig}, {NoConfig})
  \/ CreateJob(Targets, {"nginx", NotATemplate}, {NoConfig})
  \/ CreateCronJob(Targets, {"nginx", NotATemplate}, {NoConfig})
  \/ CreateIngress(Targets)
  \/ DeleteDeployment(OneTarget)
  \/ DeletePod(OneTarget)
  \/ DeleteService(OneTarget)
  \/ DeleteJob(OneTarget)
  \/ DeleteCronJob(OneTarget)
  \/ DeleteIngress(OneTarget)
  \/ Dispatch

ToolSpec == Init /\ [][ToolNext]_vars

\* TemplateSpec: the template tools on one target, with every identifier of
\* their enumerations, an unknown one, and a few overrides
PodOverrides ==
  {NoConfig,
   [image |-> "busybox:1"],
   [resources |-> [limits |-> [cpu |-> "1"]]],
   [ports |-> <<[containerPort |-> 8080]>>, restartPolicy |-> "Never"]}
ContainerOverrides ==
  {NoConfig,
   [image |-> "busybox:1"],
   [resources |-> [limits |-> [cpu |-> "1"]]],
   [ports |-> <<[containerPort |-> 8080]>>, restartPolicy |-> "Never"]}
ServiceOverrides ==
  {NoConfig,
   [selector |-> [app |-> "web"]],
   [type |-> "NodePort", ports |-> <<[port |-> 443, targetPort |-> 8443]>>]}
Selectors == {NoConfig, [app |-> "web"]}

ValuesOf(enum) == {enum[m] : m \in DOMAIN enum}

\* the identifiers a caller tries: the values of the enumeration, the names
\* of its members (what the error message lists) and an unknown one
Identifiers(enum) == ValuesOf(enum) \cup DOMAIN enum \cup {NotATemplate}

TemplateNext ==
  \/ CreatePod(OneTarget, Identifiers(PodTemplateEnum), PodOverrides)
  \/ CreateService(OneTarget, Identifiers(ServiceTypeEnum), Selectors, ServiceOverrides)
  \/ CreateJob(OneTarget, Identifiers(ContainerTemplateEnum), ContainerOverrides)
  \/ CreateCronJob(OneTarget, Identifiers(ContainerTemplateEnum), ContainerOverrides)
  \/ CleanupResources
  \/ Dispatch

TemplateSpec == Init /\ [][TemplateNext]_vars

\* ApplySpec: the apply of every batch of up to MaxDocs documents, after a
\* pod was or was not created
ApplyNext ==
  \/ ApplyYaml
  \/ CreatePod(OneTarget, {"NGINX"}, {NoConfig})
  \/ Dispatch

ApplySpec == Init /\ [][ApplyNext]_vars

\* ------------------------------------------------------------------ claims
Applied == op = "apply_yaml"

\* document j of the applied batch is one the loop has work for: a ConfigMap
\* whose namespace is known, or a document of another kind
IsConfigMap(j) ==
  /\ ~input.batch[j].empty
  /\ input.batch[j].kind = "ConfigMap"
  /\ EffectiveNamespace(input.batch[j], input.namespace) # Absent
IsUnsupported(j) ==
  /\ ~input.batch[j].empty
  /\ input.batch[j].kind \notin {Absent, "ConfigMap"}

\* the returned text carries the line / a line of ConfigMap document j
HasLine(line) == \E l \in 1..Len(result.text) : result.text[l] = line
ReportedConfigMap(j) ==
  \E l \in 1..Len(result.text) :
    /\ Len(result.text[l]) = 3
    /\ result.text[l][1] = "ConfigMap"
    /\ result.text[l][2] = input.batch[j].name

\* document j was processed: its remote calls were issued and its line is
\* in the returned text
Processed(j) ==
  /\ IsConfigMap(j) =>
       (\E c \in 1..Len(calls) : input.call_doc[c] = j) /\ ReportedConfigMap(j)
  /\ IsUnsupported(j) => HasLine(UnsupportedLine(input.batch[j]))

\* C1: when a read or write of a ConfigMap document fails with an API error
\* other than not-found, every later document of the batch is still
\* processed: its remote calls are issued and its report line is produced.
C1_LaterDocumentsProcessed ==
  Applied =>
    \A c \in 1..Len(calls) :
      input.remote[c] = "ApiException" =>
        \A j \in 1..Len(input.batch) : j > input.call_doc[c] => Processed(j)

\* C2: the returned text lists the outcome of every processed document: for
\* a batch of ConfigMaps with a namespace and documents of other kinds, the
\* success line of every document whose write succeeded is in it, also when
\* another document of the batch failed.
WellFormedBatch ==
  \A j \in 1..Len(input.batch) :
    input.batch[j].empty \/ IsConfigMap(j) \/ IsUnsupported(j)

C2_SuccessLinesReported ==
  (Applied /\ WellFormedBatch) =>
    \A c \in 1..Len(calls) :
      LET doc == input.batch[input.call_doc[c]]
      IN  /\ (calls[c].verb = "replace_namespaced_config_map" /\ input.remote[c] = "ok")
               => HasLine(UpdatedLine(doc))
          /\ (calls[c].verb = "create_namespaced_config_map" /\ input.remote[c] = "ok")
               => HasLine(CreatedLine(doc))

\* C3: a non-empty document without a kind is skipped: in a batch none of
\* whose remote calls failed and whose ConfigMaps all have a namespace, it
\* causes no error and every other document is processed and reported.
NoRemoteFailure ==
  \A c \in 1..Len(calls) :
    \/ input.remote[c] = "ok"
    \/ calls[c].verb = "read_namespaced_config_map" /\ input.remote[c] = "ApiException404"

C3_DocumentWithoutKindSkipped ==
  ( /\ Applied
    /\ \E i \in 1..Len(input.batch) :
         ~input.batch[i].empty /\ input.batch[i].kind = Absent
    /\ NoRemoteFailure
    /\ \A j \in 1..Len(input.batch) :
         input.batch[j].kind = "ConfigMap" => IsConfigMap(j) )
  => /\ ~\E l \in 1..Len(result.text) : result.text[l][1] = "Error applying YAML:"
     /\ \A j \in 1..Len(input.batch) : Processed(j)

\* the delete a tracked entry's kind calls for: the call its delete tool makes
KindDelete(kind) ==
  CASE kind = "Deployment" -> [api |-> "apps", verb |-> "delete_namespaced_deployment"]
    [] kind = "Service"    -> [api |-> "core", verb |-> "delete_namespaced_service"]
    [] kind = "Pod"        -> [api |-> "core", verb |-> "delete_namespaced_pod"]
    [] kind = "Job"        -> [api |-> "batch", verb |-> "delete_namespaced_job"]
    [] kind = "CronJob"    -> [api |-> "batch", verb |-> "delete_namespaced_cron_job"]
    [] kind = "Ingress"    -> [api |-> "networking", verb |-> "delete_namespaced_ingress"]

\* the last operation issued the delete of entry e, with its kind's operation
DeleteIssued(e) ==
  \E c \in 1..Len(calls) :
    calls[c] = RemoteCall(KindDelete(e.kind).api, KindDelete(e.kind).verb,
                          e.name, e.namespace)

Swept == op = "cleanup_resources"

\* C4: the sweep issues a delete, with the delete operation of the entry's
\* kind, for every entry that is in the registry when the sweep starts,
\* whatever kind a create tool recorded it with (CronJob included).
C4_SweepDeletesEveryTrackedEntry ==
  Swept => \A i \in 1..Len(before) : DeleteIssued(before[i].value)

\* C5: a failed delete of one tracked entry does not stop the sweep: the
\* delete of every later entry (of a kind the sweep deletes) is still issued,
\* whatever the failure was.
C5_FailedDeleteDoesNotStopSweep ==
  Swept =>
    \A i, j \in 1..Len(before) :
      ( /\ i < j
        /\ DeleteIssued(before[i].value)
        /\ input.remote[i] # "ok"
        /\ SweepDelete(before[j].value.kind).verb # None )
      => DeleteIssued(before[j].value)

\* a sweep whose first delete raised ApiException went on to the next entry
C5_SweepWentOnAfterApiException ==
  /\ Swept
  /\ Len(before) >= 2
  /\ DeleteIssued(before[1].value)
  /\ input.remote[1] = "ApiException"
  /\ DeleteIssued(before[2].value)

\* C6: after cleanup_resources has run, the registry is empty, whichever
\* deletes succeeded or failed.
C6_RegistryEmptyAfterSweep ==
  Swept => get_tracked_resources(tracked) = << >>

\* a sweep some delete of which failed has run
C6_SweptWithFailure ==
  /\ Swept
  /\ \E i \in 1..Len(before) : DeleteIssued(before[i].value) /\ input.remote[i] # "ok"

\* C7: the registry holds at most one entry per "namespace/name" key, every
\* entry under the key of its own name and namespace; a record whose key is
\* present replaces that entry in place, another is added, and no other
\* entry changes.
C7_KeysUnique ==
  \A i, j \in 1..Len(tracked) : tracked[i].key = tracked[j].key => i = j

C7_OneEntryPerKey ==
  /\ C7_KeysUnique
  /\ \A i \in 1..Len(tracked) :
       tracked[i].key = ResourceKey(tracked[i].value.name, tracked[i].value.namespace)
  /\ op = "track_resource" =>
       LET key == ResourceKey(input.name, input.namespace)
       IN  /\ Cardinality({i \in 1..Len(tracked) : tracked[i].key = key}) = 1
           /\ \A i \in 1..Len(tracked) : tracked[i].key = key => tracked[i].value = input
           /\ Len(tracked) = Len(before) + (IF key \in KeysOf(before) THEN 0 ELSE 1)
           /\ \A i \in 1..Len(before) :
                before[i].key # key => tracked[i] = before[i]

\* a record has replaced the entry of another kind under the same key, beside
\* an entry of another key
C7_Overwritten ==
  /\ op = "track_resource"
  /\ Len(tracked) = 2
  /\ \E i \in 1..Len(before) :
       /\ before[i].key = ResourceKey(input.name, input.namespace)
       /\ before[i].value.kind # input.kind

\* C8: the registry is keyed by (kind, namespace, name): after a create of a
\* resource whose namespace and name an entry of another kind carries, both
\* entries are tracked.
C8_KindsShareNameAndNamespace ==
  (op \in {"create_deployment", "expose_deployment"} /\ result.status = "text"
     /\ tracked # before) =>
    \A i \in 1..Len(before) :
      \E k \in 1..Len(tracked) : tracked[k].value = before[i].value

\* C9: a create tool records its resource exactly when its remote create
\* succeeded; a create that failed, or was never issued, leaves the registry
\* as it was.
CreateTools ==
  {"create_deployment", "expose_deployment", "create_pod", "create_service",
   "create_job", "create_cronjob", "create_ingress"}

KindCreated(tool) ==
  CASE tool = "create_deployment" -> "Deployment"
    [] tool = "expose_deployment" -> "Service"
    [] tool = "create_pod" -> "Pod"
    [] tool = "create_service" -> "Service"
    [] tool = "create_job" -> "Job"
    [] tool = "create_cronjob" -> "CronJob"
    [] tool = "create_ingress" -> "Ingress"

C9_TrackedIffCreated ==
  op \in CreateTools =>
    IF Len(calls) = 1 /\ input.remote = "ok"
      THEN tracked = track_resource(before, KindCreated(op), input.name, input.namespace)
      ELSE tracked = before

\* C10: a template tool called with a valid identifier and no overrides, whose
\* remote call (if it gets that far) is answered with an API error, returns a
\* text to the dispatch framework.
TemplateEnumOf(tool) ==
  CASE tool = "create_pod" -> PodTemplateEnum
    [] tool = "create_service" -> ServiceTypeEnum
    [] OTHER -> ContainerTemplateEnum

C10_TemplateToolReturnsText ==
  ( /\ op \in TemplateTools
    /\ EnumMembers(TemplateEnumOf(op), input.template) # {}
    /\ ~Truthy(input.custom_config)
    /\ input.remote = "ApiException" )
  => result.status = "text"

\* C10 in full: every tool hands a text to the dispatch framework
C10_EveryToolReturnsText ==
  op \notin {"idle", "track_resource", "cleanup_resources"} => result.status = "text"

\* C11: a template tool called with an identifier that is no value of its
\* enumeration returns the invalid-template text, issues no remote call and
\* leaves the registry as it was.
InvalidTemplateHeads ==
  {"Invalid template. Must be one of:", "Invalid service type. Must be one of:"}

UnknownTemplate ==
  /\ op \in TemplateTools
  /\ \A m \in DOMAIN TemplateEnumOf(op) : TemplateEnumOf(op)[m] # input.template

C11_InvalidTemplateIsLocal ==
  UnknownTemplate =>
    /\ result.status = "text"
    /\ Len(result.text) = 1
    /\ result.text[1][1] \in InvalidTemplateHeads
    /\ calls = << >>
    /\ tracked = before

\* an unknown identifier was rejected while the registry held an entry
C11_RejectedWithEntryTracked ==
  /\ UnknownTemplate
  /\ op = "create_job"
  /\ input.template = NotATemplate
  /\ before # << >>
  /\ result.status = "text"

\* C12: the identifiers the invalid-template message lists are the ones the
\* same tool accepts: each listed identifier is accepted when passed back,
\* and each accepted identifier is listed.
Listed == {result.text[1][i] : i \in 2..Len(result.text[1])}

AcceptedBy(tool, identifier) == EnumMembers(TemplateEnumOf(tool), identifier) # {}

C12_MessageListsAcceptedIdentifiers ==
  UnknownTemplate =>
    /\ \A identifier \in Listed : AcceptedBy(op, identifier)
    /\ \A identifier \in Identifiers(TemplateEnumOf(op)) :
         AcceptedBy(op, identifier) => identifier \in Listed

\* create_pod, whose member names are their values, lists what it accepts
C12_PodMessageListsAccepted ==
  /\ UnknownTemplate
  /\ op = "create_pod"
  /\ Listed = ValuesOf(PodTemplateEnum)

\* C13: the configuration a template tool builds from has, for every
\* top-level key of the overrides, exactly the overrides' value, and for
\* every other key exactly the value of the template. The overrides of
\* create_service are custom_config or, without it, the selector argument.
BaseOf(tool, member) ==
  CASE tool = "create_pod" -> pod_templates[member]
    [] tool = "create_service" -> service_templates[member]
    [] OTHER -> container_templates[member]

OverridesOf ==
  IF Truthy(input.custom_config) THEN input.custom_config
  ELSE IF op = "create_service" /\ Truthy(input.selector)
    THEN [selector |-> input.selector]
  ELSE NoConfig

ResolvedTemplate == op \in TemplateTools /\ input.resolution.resolved

C13_OverridesReplaceShallowly ==
  ResolvedTemplate =>
    LET cfg == input.resolution.config
        base == BaseOf(op, EnumOf(TemplateEnumOf(op), input.template))
    IN  /\ DOMAIN cfg = DOMAIN base \cup DOMAIN OverridesOf
        /\ \A k \in DOMAIN OverridesOf : cfg[k] = OverridesOf[k]
        /\ \A k \in DOMAIN base \ DOMAIN OverridesOf : cfg[k] = base[k]

\* the resources of the NGINX pod template were replaced by overrides that
\* carry limits only: the template's requests are gone, its image stays
C13_ResourcesReplacedWholesale ==
  /\ ResolvedTemplate
  /\ op = "create_pod"
  /\ input.template = "NGINX"
  /\ input.custom_config = [resources |-> [limits |-> [cpu |-> "1"]]]
  /\ DOMAIN input.resolution.config["resources"] = {"limits"}
  /\ input.resolution.config["image"] = "nginx:latest"

\* C14: without overrides the configuration used is the stored template of
\* the catalog, and after any sequence of template tools, with or without
\* overrides, every stored template has the value it was defined with.
InitialCatalog ==
  [pod |-> pod_templates, container |-> container_templates,
   service |-> service_templates]

NoOverrides == DOMAIN OverridesOf = {}

ReadOf(c) ==
  CHOOSE r \in 1..Len(calls) :
    /\ input.call_doc[r] = input.call_doc[c]
    /\ \A d \in 1..(r - 1) : input.call_doc[d] # input.call_doc[c]

C15_WriteFollowsItsRead ==
  Applied =>
    \A c \in 1..Len(calls) :
      LET r == ReadOf(c)
          doc == input.batch[input.call_doc[c]]
      IN  /\ calls[r].verb = "read_namespaced_config_map"
          /\ calls[r].name = doc.name
          /\ calls[r].namespace = EffectiveNamespace(doc, input.namespace)
          /\ calls[c].verb = "replace_namespaced_config_map" => input.remote[r] = "ok"
          /\ calls[c].verb = "create_namespaced_config_map"
               => input.remote[r] = "ApiException404"

\* a create that followed a read answered not-found
C15_CreatedAfterNotFound ==
  /\ Applied
  /\ Len(calls) = 2
  /\ calls[2].verb = "create_namespaced_config_map"
  /\ input.remote = <<"ApiException404", "ok">>

\* C16: for a batch of one ConfigMap document and one document of an
\* unsupported kind, the returned report has two lines and the calls of the
\* batch hold exactly one write (a replace or a create), whatever the remote
\* calls were answered.
OneSupportedOneUnsupported ==
  /\ Len(input.batch) = 2
  /\ \E j, k \in 1..2 : IsConfigMap(j) /\ IsUnsupported(k)

Writes ==
  {c \in 1..Len(calls) :
     calls[c].verb \in {"replace_namespaced_config_map", "create_namespaced_config_map"}}

C16_TwoLinesOneWrite ==
  (Applied /\ OneSupportedOneUnsupported) =>
    /\ Len(result.text) = 2
    /\ Cardinality(Writes) = 1

\* the batch applied with every call answered: two lines, one replace
C16_BothReported ==
  /\ Applied
  /\ OneSupportedOneUnsupported
  /\ input.remote = <<"ok", "ok">>
  /\ Len(result.text) = 2
  /\ Cardinality(Writes) = 1

C18_DocumentOrderKept ==
  Applied =>
    /\ \A c, d \in 1..Len(calls) : c < d => input.call_doc[c] <= input.call_doc[d]
    /\ \A c \in 1..Len(calls) :
         IF calls[c].verb = "create_namespaced_config_map"
           THEN calls[c].body.name = input.batch[input.call_doc[c]].name
           ELSE calls[c].name = input.batch[input.call_doc[c]].name
    /\ \A l, m \in 1..Len(input.results) : l < m => input.line_doc[l] <= input.line_doc[m]
    /\ input.raised = None => result.text = input.results

\* two ConfigMap documents, each read and replaced, each reported
C18_TwoDocumentsInOrder ==
  /\ Applied
  /\ input.call_doc = <<1, 1, 2, 2>>
  /\ input.line_doc = <<1, 2>>
  /\ input.batch[1].name # input.batch[2].name
  /\ result.text = <<<<"ConfigMap", input.batch[1].name, "updated successfully">>,
                     <<"ConfigMap", input.batch[2].name, "updated successfully">>>>

\* C19: when the apply is given a target namespace, every remote call of the
\* batch is addressed to that namespace and submits an object in it, and
\* every ConfigMap document the loop reaches is read there, whether or not
\* the document carries a namespace of its own.
C19_TargetNamespaceUsed ==
  (Applied /\ input.namespace # Absent) =>
    /\ \A c \in 1..Len(calls) :
         /\ calls[c].namespace = input.namespace
         /\ calls[c].verb # "read_namespaced_config_map"
              => calls[c].body.namespace = input.namespace
    /\ \A j \in 1..Len(input.batch) :
         ( /\ ~input.batch[j].empty
           /\ input.batch[j].kind = "ConfigMap"
           /\ j <= input.reached )
         => \E c \in 1..Len(calls) :
              /\ input.call_doc[c] = j
              /\ calls[c].verb = "read_namespaced_config_map"
              /\ calls[c].namespace = input.namespace

\* a document without a namespace and one in "default", both applied in the
\* target namespace
C19_BothDocumentsRedirected ==
  /\ Applied
  /\ input.namespace = "prod"
  /\ Len(input.batch) = 2
  /\ input.batch[1].namespace = Absent
  /\ input.batch[2].namespace = "default"
  /\ Len(calls) = 4
  /\ \A c \in 1..4 : calls[c].namespace = "prod"

\* C20: an apply leaves the registry of the server's manager as it was,
\* whether its documents were created, replaced, unsupported or failed.
C20_ApplyLeavesRegistry ==
  Applied => tracked = before

\* an apply that created a ConfigMap while the registry held a pod
C20_CreatedWhileTracking ==
  /\ Applied
  /\ before # << >>
  /\ \E c \in 1..Len(calls) :
       calls[c].verb = "create_namespaced_config_map" /\ input.remote[c] = "ok"
  /\ tracked = before

\* C21: the manager is constructed once, at start: no operation that runs
\* after start-up constructs another KubernetesManager. Only the apply
\* contains a constructor call; the registered tools use the manager they
\* were registered with.
ConstructedByOperation == IF Applied THEN input.constructed ELSE 0

C21_ManagerConstructedOnce ==
  op # "idle" => ConstructedByOperation = 0

\* an apply without ConfigMap documents constructs nothing
C21_NothingConstructed ==
  /\ Applied
  /\ Len(input.results) = 1
  /\ input.constructed = 0

\* C22: the restart policy of the resource a tool submits is the value of
\* restartPolicy in the merged configuration when it has one, and otherwise
\* the default of the kind (Always for a Pod, OnFailure for a Job or CronJob).
DefaultRestartPolicy(tool) == IF tool = "create_pod" THEN "Always" ELSE "OnFailure"

SubmittedWorkload ==
  /\ ResolvedTemplate
  /\ op \in {"create_pod", "create_job", "create_cronjob"}
  /\ Len(calls) = 1

C22_RestartPolicyFollowsConfiguration ==
  SubmittedWorkload =>
    calls[1].body.restart_policy =
      Get(input.resolution.config, "restartPolicy", DefaultRestartPolicy(op))

\* a pod whose overrides ask for Never is submitted with Never
C22_PodPolicyOverridden ==
  /\ SubmittedWorkload
  /\ op = "create_pod"
  /\ "restartPolicy" \in DOMAIN input.custom_config
  /\ input.custom_config["restartPolicy"] = "Never"
  /\ calls[1].body.restart_policy = "Never"

\* ---------------------------------------------------------------------
\* C23: every resource specification a create operation submits carries the
\* label mcp-managed = "true" and the label app equal to the resource's name.
CreateVerbs ==
  {"create_namespaced_deployment", "create_namespaced_service",
   "create_namespaced_pod", "create_namespaced_job",
   "create_namespaced_cron_job", "create_namespaced_ingress"}

Submitted == {i \in 1..Len(calls) : calls[i].verb \in CreateVerbs}

C23_ProvenanceLabels ==
  op \in CreateTools =>
    \A i \in Submitted :
      /\ DOMAIN calls[i].body.labels = {"mcp-managed", "app"}
      /\ calls[i].body.labels["mcp-managed"] = "true"
      /\ calls[i].body.labels["app"] = calls[i].body.name

C23_IngressSubmitted ==
  /\ op = "create_ingress"
  /\ Submitted # {}
  /\ calls[1].body.kind = "Ingress"
  /\ calls[1].body.labels["app"] = input.name

\* ---------------------------------------------------------------------
\* C26: an explicit delete operation leaves the registry as it was, so the
\* entry of a resource that was created and then explicitly deleted stays,
\* and a sweep that finds the entry issues a delete for it again.
DeleteTools ==
  {"delete_deployment", "delete_pod", "delete_service", "delete_job",
   "delete_cronjob", "delete_ingress"}

\* the entries of reg that describe the resource the running delete names
EntriesDeleted(reg) ==
  {i \in 1..Len(reg) : /\ SweepDelete(reg[i].value.kind).verb = calls[1].verb
                        /\ reg[i].value.name = input.name
                        /\ reg[i].value.namespace = input.namespace}

\* the calls of a sweep of reg whose deletes all answer
SweepCallsOf(reg) == SweepFrom(reg, [i \in 1..Len(reg) |-> "ok"], 1).calls

Assign(patch, key, value) ==
  [k \in DOMAIN patch \cup {key} |-> IF k = key THEN value ELSE patch[k]]

\* an Optional argument that was not passed is absent from the arguments
ImageGiven(args) == "image" \in DOMAIN args /\ args["image"] # ""
ReplicasGiven(args) == "replicas" \in DOMAIN args
EnvGiven(args) == "env" \in DOMAIN args /\ Len(args["env"]) > 0

\* e["name"] / e["value"] of an entry of env that lacks the key
EnvKeyError(args) ==
  EnvGiven(args) /\ (LacksKey(args["env"], "name") \/ LacksKey(args["env"], "value"))

ImagePatch(deployment_name, image) ==
  [template |-> [spec |-> [containers |->
     <<[name |-> deployment_name, image |-> image]>>]]]
ReplicasPatch(replicas) == [replicas |-> replicas]
EnvPatch(deployment_name, env) ==
  [template |-> [spec |-> [containers |->
     <<[name |-> deployment_name,
        env |-> [i \in 1..Len(env) |->
                   [name |-> env[i]["name"], value |-> env[i]["value"]]]]>>]]]

\* update_deployment: the patch it sends; each of the three ifs assigns
\* patch["spec"] anew
UpdatePatch(deployment_name, args) ==
  LET p0 == NoConfig
      p1 == IF ImageGiven(args)
              THEN Assign(p0, "spec", ImagePatch(deployment_name, args["image"]))
              ELSE p0
      p2 == IF ReplicasGiven(args)
              THEN Assign(p1, "spec", ReplicasPatch(args["replicas"]))
              ELSE p1
  IN  IF EnvGiven(args)
        THEN Assign(p2, "spec", EnvPatch(deployment_name, args["env"]))
        ELSE p2

\* the arguments update_deployment is called with besides its target
UpdateArguments ==
  {i @@ r @@ e :
     i \in {NoConfig, [image |-> ""], [image |-> "nginx:2"]},
     r \in {NoConfig, [replicas |-> 0], [replicas |-> 2]},
     e \in {NoConfig, [env |-> << >>],
            [env |-> <<[name |-> "MODE", value |-> "fast"]>>],
            [env |-> <<[name |-> "MODE"]>>]}}

UpdateDeployment(TG) ==
  \E name \in Names, namespace \in Namespaces, args \in UpdateArguments,
     o \in CreateOutcomes :
    /\ <<name, namespace>> \in TG
    /\ Ran("update_deployment",
           [name |-> name, namespace |-> namespace, args |-> args, remote |-> o])
    /\ tracked' = tracked
    /\ IF EnvKeyError(args)
         THEN /\ calls' = << >>
              /\ result' = Raised("KeyError")
         ELSE /\ calls' = <<RemoteCallWith("apps", "patch_namespaced_deployment",
                                           name, namespace,
                                           UpdatePatch(name, args))>>
              /\ result' = IF o = "ok"
                             THEN Text(<<<<"Deployment updated", name>>>>)
                           ELSE IF ToolCatches(o)
                             THEN Text(<<<<"Error updating deployment", o>>>>)
                           ELSE Raised(o)

valid_actions == <<"status", "history", "restart", "undo">>
RolloutActions == {"status", "history", "restart", "undo", "pause", ""}

RestartedAtPatch ==
  [spec |-> [template |-> [metadata |-> [annotations |->
     ("kubectl.kubernetes.io/restartedAt" :> "now")]]]]

RolloutCall_rollback(action, deployment_name, namespace) ==
  IF action = "restart"
    THEN RemoteCallWith("apps", "patch_namespaced_deployment",
                        deployment_name, namespace, RestartedAtPatch)
  ELSE IF action = "undo"
    THEN RemoteCallWith("apps", "patch_namespaced_deployment",
                        deployment_name, namespace,
                        [spec |-> [rollbackTo |-> [revision |-> 0]]])
  ELSE RemoteCall("apps", "read_namespaced_deployment", deployment_name, namespace)

\* rollout_deployment: the one call of a valid action
RolloutCall(action, deployment_name, namespace) ==
  IF action = "restart"
    THEN RemoteCallWith("apps", "patch_namespaced_deployment",
                        deployment_name, namespace, RestartedAtPatch)
  ELSE IF action = "undo"
    THEN RemoteCallWith("apps", "patch_namespaced_deployment",
                        deployment_name, namespace, RestartedAtPatch)
  ELSE RemoteCall("apps", "read_namespaced_deployment", deployment_name, namespace)

RolloutDeployment(TG) ==
  \E name \in Names, namespace \in Namespaces, action \in RolloutActions,
     o \in CreateOutcomes :
    /\ <<name, namespace>> \in TG
    /\ Ran("rollout_deployment",
           [name |-> name, namespace |-> namespace, action |-> action, remote |-> o])
    /\ tracked' = tracked
    /\ IF \A i \in 1..Len(valid_actions) : valid_actions[i] # action
         THEN /\ calls' = << >>
              /\ result' = Text(<<<<"Invalid action. Must be one of", valid_actions>>>>)
         ELSE /\ calls' = <<RolloutCall(action, name, namespace)>>
              /\ result' = IF Seen(TRUE, o) = "ok"
                             THEN Text(<<<<"response">>>>)
                           ELSE IF ToolCatches(Seen(TRUE, o))
                             THEN Text(<<<<"Error performing rollout action", o>>>>)
                           ELSE Raised(Seen(TRUE, o))

DeployNext ==
  \/ UpdateDeployment(Targets)
  \/ RolloutDeployment(Targets)
  \/ Dispatch

DeploySpec == Init /\ [][DeployNext]_vars

\* ---------------------------------------------------------------------
\* C29: the patch update_deployment sends sets every field the caller
\* supplied: the image when an image is given, the replica count when a
\* count is given, the environment when an environment is given.
PatchSent == calls[1].body

SetsImage(patch) ==
  /\ "spec" \in DOMAIN patch
  /\ "template" \in DOMAIN patch["spec"]
  /\ "image" \in DOMAIN patch["spec"]["template"]["spec"]["containers"][1]
  /\ patch["spec"]["template"]["spec"]["containers"][1]["image"] = input.args["image"]

SetsReplicas(patch) ==
  /\ "spec" \in DOMAIN patch
  /\ "replicas" \in DOMAIN patch["spec"]
  /\ patch["spec"]["replicas"] = input.args["replicas"]

SetsEnv(patch) ==
  /\ "spec" \in DOMAIN patch
  /\ "template" \in DOMAIN patch["spec"]
  /\ "env" \in DOMAIN patch["spec"]["template"]["spec"]["containers"][1]
  /\ patch["spec"]["template"]["spec"]["containers"][1]["env"] = input.args["env"]

C29_PatchSetsEverySuppliedField ==
  (op = "update_deployment" /\ Len(calls) = 1) =>
    /\ ImageGiven(input.args) => SetsImage(PatchSent)
    /\ ReplicasGiven(input.args) => SetsReplicas(PatchSent)
    /\ EnvGiven(input.args) => SetsEnv(PatchSent)

C29_OnlyImageSupplied ==
  /\ op = "update_deployment"
  /\ Len(calls) = 1
  /\ ImageGiven(input.args) /\ ~ReplicasGiven(input.args) /\ ~EnvGiven(input.args)
  /\ SetsImage(PatchSent)

\* ---------------------------------------------------------------------
\* C30: rollout_deployment answers an action outside status, history, restart
\* and undo with an error text and no remote call; "undo" issues the very
\* patch "restart" issues, a restartedAt annotation; "status" and "history"
\* issue one read and nothing else.
PatchOfRestart ==
  [api |-> "apps", verb |-> "patch_namespaced_deployment", name |-> input.name,
   namespace |-> input.namespace,
   body |-> [spec |-> [template |-> [metadata |-> [annotations |->
              ("kubectl.kubernetes.io/restartedAt" :> "now")]]]]]

C30_RolloutActions ==
  op = "rollout_deployment" =>
    /\ input.action \notin {"status", "history", "restart", "undo"} =>
         /\ calls = << >>
         /\ result.status = "text"
         /\ result.text[1][1] = "Invalid action. Must be one of"
    /\ input.action \in {"restart", "undo"} => calls = <<PatchOfRestart>>
    /\ input.action \in {"status", "history"} =>
         /\ Len(calls) = 1
         /\ calls[1].verb = "read_namespaced_deployment"
         /\ calls[1].name = input.name /\ calls[1].namespace = input.namespace

C30_UndoPatched ==
  /\ op = "rollout_deployment"
  /\ input.action = "undo"
  /\ calls = <<PatchOfRestart>>

\* ------------------------------------------------ constructing the manager
\* what a loader of the client library does: it loads a configuration or
\* raises config.ConfigException
LoaderOutcomes == {"ok", "ConfigException"}

ManagerApis == {"core", "apps", "batch", "networking"}

LoaderCall(loader) == RemoteCall("config", loader, None, None)

KubernetesManager_init_degraded(incluster, kubeconfig) ==
  IF incluster = "ok"
    THEN [attempts |-> <<LoaderCall("load_incluster_config")>>, raised |-> None,
          configuration |-> "incluster", tracked |-> << >>, apis |-> ManagerApis]
  ELSE [attempts |-> <<LoaderCall("load_incluster_config"),
                       LoaderCall("load_kube_config")>>,
        raised |-> None,
        configuration |-> IF kubeconfig = "ok" THEN "kubeconfig" ELSE None,
        tracked |-> << >>, apis |-> ManagerApis]

\* KubernetesManager.__init__: the loaders it calls in order, what it raises,
\* the configuration that is loaded afterwards and the fields it sets
KubernetesManager_init(incluster, kubeconfig) ==
  IF incluster = "ok"
    THEN [attempts |-> <<LoaderCall("load_incluster_config")>>, raised |-> None,
          configuration |-> "incluster", tracked |-> << >>, apis |-> ManagerApis]
  ELSE IF kubeconfig = "ok"
    THEN [attempts |-> <<LoaderCall("load_incluster_config"),
                         LoaderCall("load_kube_config")>>,
          raised |-> None,
          configuration |-> "kubeconfig", tracked |-> << >>, apis |-> ManagerApis]
  ELSE [attempts |-> <<LoaderCall("load_incluster_config"),
                       LoaderCall("load_kube_config")>>,
        raised |-> "RuntimeError",
        configuration |-> None, tracked |-> << >>, apis |-> {}]

\* the process before main() has constructed the manager
Starting ==
  /\ tracked = << >>
  /\ op = "starting"
  /\ input = NoConfig
  /\ before = << >>
  /\ calls = << >>
  /\ result = Text(<< >>)
  /\ catalog = [pod |-> pod_templates, container |-> container_templates,
                service |-> service_templates]
  /\ configuration = None
  /\ tasks = << >>

\* main(): k8s_manager = KubernetesManager(); an exception of the constructor
\* leaves main and the process ends before any tool is registered
Construct ==
  \E incluster \in LoaderOutcomes, kubeconfig \in LoaderOutcomes :
    LET m == KubernetesManager_init(incluster, kubeconfig)
    IN  /\ op = "starting"
        /\ op' = IF m.raised = None THEN "KubernetesManager" ELSE "exited"
        /\ input' = [incluster |-> incluster, kubeconfig |-> kubeconfig]
        /\ before' = << >>
        /\ calls' = m.attempts
        /\ result' = IF m.raised = None
                       THEN [status |-> "manager", text |-> << >>, apis |-> m.apis]
                       ELSE Raised(m.raised)
        /\ tracked' = m.tracked
        /\ configuration' = m.configuration
        /\ catalog' = catalog
        /\ tasks' = tasks

StartNext ==
  \/ Construct
  \/ CreateDeployment(Targets)
  \/ DeleteDeployment(OneTarget)
  \/ CleanupResources
  \/ Dispatch

StartSpec == Starting /\ [][StartNext]_vars

\* ---------------------------------------------------------------------
\* C28: constructing the manager tries the in-cluster configuration first and
\* the kubeconfig only after the in-cluster attempt failed; it fails, leaving
\* no manager, exactly when both attempts fail; no operation ever runs
\* without a loaded configuration.
Attempted(loader) == \E i \in 1..Len(calls) : calls[i].verb = loader

C28_ConstructionLoadsOrFails ==
  /\ op \in {"KubernetesManager", "exited"} =>
       /\ calls[1].verb = "load_incluster_config"
       /\ Attempted("load_kube_config") <=> input.incluster # "ok"
       /\ Attempted("load_kube_config") =>
            Len(calls) = 2 /\ calls[2].verb = "load_kube_config"
       /\ op = "exited" <=> (input.incluster # "ok" /\ input.kubeconfig # "ok")
       /\ op = "exited" <=> result = Raised("RuntimeError")
       /\ op = "KubernetesManager" =>
            /\ result.status = "manager" /\ result.apis = ManagerApis
            /\ tracked = << >>
            /\ configuration = IF input.incluster = "ok" THEN "incluster"
                               ELSE "kubeconfig"
  /\ op \notin {"starting", "exited"} => configuration # None
  /\ configuration = None => tracked = << >>

C28_FellBackToKubeconfig ==
  /\ op = "KubernetesManager"
  /\ input.incluster = "ConfigException"
  /\ Attempted("load_kube_config")
  /\ configuration = "kubeconfig"

\* ------------------------------------------------------ requests in flight
\* The dispatch framework runs every handler as a coroutine on one event
\* loop: a handler keeps the loop until it returns or reaches an await that
\* suspends. The calls of the kubernetes client are synchronous, so the only
\* await that suspends is the sleep between two polls of expose_deployment.
ConcurrentRequests ==
  {[tool |-> "create_deployment", kind |-> "Deployment", name |-> "web",
    namespace |-> "default"],
   [tool |-> "create_pod", kind |-> "Pod", name |-> "web", namespace |-> "default"],
   [tool |-> "create_pod", kind |-> "Pod", name |-> "db", namespace |-> "default"],
   [tool |-> "expose_deployment", kind |-> "Service", name |-> "web",
    namespace |-> "default"],
   [tool |-> "cleanup_resources", kind |-> None, name |-> None, namespace |-> None]}

Pending == [pc |-> "pending", recorded |-> FALSE, swept |-> FALSE, at |-> 0]

\* the position of the next handler step among those of the requests in flight
Tick(ts) ==
  LET ran == {ts[r].at : r \in DOMAIN ts}
  IN  1 + (CHOOSE n \in ran : \A m \in ran : m <= n)

Finished(ts, r, recorded) ==
  [ts EXCEPT ![r] = [pc |-> "returned", recorded |-> recorded, swept |-> FALSE,
                     at |-> Tick(ts)]]

\* requests arrive together once the ones before them have returned
Arrive ==
  /\ op = "idle"
  /\ \A r \in DOMAIN tasks : tasks[r].pc = "returned"
  /\ \E b \in SUBSET ConcurrentRequests :
       /\ Cardinality(b) \in 1..MaxTasks
       /\ tasks' = [r \in b |-> Pending]
  /\ UNCHANGED <<tracked, op, input, before, calls, result, catalog, configuration>>

\* the body a create request of the set submits
ConcurrentBody(r) ==
  IF r.tool = "create_deployment"
    THEN RemoteCallWith("apps", "create_namespaced_deployment", None, r.namespace,
                        BuildDeployment(r.name, r.namespace, "nginx:latest").body)
    ELSE RemoteCallWith("core", "create_namespaced_pod", None, r.namespace,
                        BuildPod(r.name, r.namespace, catalog.pod["NGINX"]).body)

\* create_deployment, create_pod: the whole handler, it never suspends
RunCreate(r) ==
  \E o \in CreateOutcomes :
    /\ r \in DOMAIN tasks /\ tasks[r].pc = "pending"
    /\ r.tool \in {"create_deployment", "create_pod"}
    /\ Started(r.tool, [name |-> r.name, namespace |-> r.namespace, remote |-> o])
    /\ catalog' = catalog
    /\ CreateTail(FALSE, ConcurrentBody(r), r.kind, r.name, r.namespace, o)
    /\ tasks' = Finished(tasks, r, o = "ok")

\* what read_namespaced_service answers to a poll: the load balancer has an
\* ingress, has none yet, or the call fails
PollOutcomes == {"ready", "pending", "ApiException", "Error"}

ReadService(r) == RemoteCall("core", "read_namespaced_service", r.name, r.namespace)

Suspended == [status |-> "suspended", text |-> << >>]

\* one turn of `while True`: the read, then break and return, or sleep
PollResult(r, p) ==
  IF p = "ready" THEN Text(<<<<"Service", r.name, "created">>>>)
  ELSE IF p = "pending" THEN Suspended
  ELSE IF ToolCatches(p) THEN Text(<<<<"Error exposing deployment", p>>>>)
  ELSE Raised(p)

AfterPoll(ts, r, p, recorded) ==
  [ts EXCEPT ![r] = [pc |-> IF p = "pending" THEN "sleeping" ELSE "returned",
                     recorded |-> recorded,
                     swept |-> ts[r].swept,
                     at |-> IF ts[r].at = 0 THEN Tick(ts) ELSE ts[r].at]]

\* expose_deployment with service_type LoadBalancer, up to its first
\* suspension: the create, the record, the first poll
RunExpose(r) ==
  \E o \in CreateOutcomes, p \in PollOutcomes :
    LET create == RemoteCallWith("core", "create_namespaced_service", None, r.namespace,
                     BuildExposedService(r.name, r.namespace, 80, "LoadBalancer").body)
    IN
    /\ r \in DOMAIN tasks /\ tasks[r].pc = "pending"
    /\ r.tool = "expose_deployment"
    /\ Started(r.tool, [name |-> r.name, namespace |-> r.namespace,
                        template |-> "LoadBalancer", remote |-> o,
                        poll |-> IF o = "ok" THEN p ELSE None])
    /\ tracked' = TrackAfterCreate(tracked, r.kind, r.name, r.namespace, o)
    /\ IF o = "ok"
         THEN /\ calls' = <<create, ReadService(r)>>
              /\ result' = PollResult(r, p)
              /\ tasks' = AfterPoll(tasks, r, p, TRUE)
         ELSE /\ calls' = <<create>>
              /\ result' = IF ToolCatches(o)
                             THEN Text(<<<<"Error exposing deployment", o>>>>)
                             ELSE Raised(o)
              /\ tasks' = Finished(tasks, r, FALSE)

\* expose_deployment after `await asyncio.sleep(1)`: the next turn of the loop
Wake(r) ==
  \E p \in PollOutcomes :
    /\ r \in DOMAIN tasks /\ tasks[r].pc = "sleeping"
    /\ Started(r.tool, [name |-> r.name, namespace |-> r.namespace,
                        template |-> "LoadBalancer", remote |-> "ok", poll |-> p])
    /\ tracked' = tracked
    /\ calls' = <<ReadService(r)>>
    /\ result' = PollResult(r, p)
    /\ tasks' = AfterPoll(tasks, r, p, tasks[r].recorded)

\* the delete a sweep issues for what a request recorded
DeleteOf(r) ==
  RemoteCall(SweepDelete(r.kind).api, SweepDelete(r.kind).verb, r.name, r.namespace)

Tracks(reg, r) ==
  \E i \in 1..Len(reg) : /\ reg[i].key = ResourceKey(r.name, r.namespace)
                         /\ reg[i].value = Entry(r.kind, r.name, r.namespace)

\* cleanup_resources: the whole coroutine, there is no await in it
RunSweep(r) ==
  \E o \in [1..Len(tracked) -> DeleteOutcomes] :
    LET s == SweepFrom(tracked, o, 1)
    IN  /\ r \in DOMAIN tasks /\ tasks[r].pc = "pending"
        /\ r.tool = "cleanup_resources"
        /\ Started(r.tool, [remote |-> o])
        /\ tracked' = IF s.raised THEN tracked ELSE clear_tracked_resources(tracked)
        /\ calls' = s.calls
        /\ result' = IF s.raised THEN Raised("Error") ELSE Text(<<<<"None">>>>)
        /\ tasks' = [q \in DOMAIN tasks |->
                       IF q = r
                         THEN [pc |-> "returned", recorded |-> FALSE,
                               swept |-> FALSE, at |-> Tick(tasks)]
                         ELSE [tasks[q] EXCEPT !.swept =
                                 \/ @
                                 \/ /\ tasks[q].recorded
                                    /\ Tracks(tracked, q)
                                    /\ \E c \in 1..Len(s.calls) : s.calls[c] = DeleteOf(q)]]

RunTask(r) ==
  \/ RunCreate(r)
  \/ RunExpose(r)
  \/ RunSweep(r)

ConcNext ==
  \/ Arrive
  \/ \E r \in ConcurrentRequests : RunTask(r)
  \/ \E r \in ConcurrentRequests : Wake(r)
  \/ Dispatch

ConcSpec == Init /\ [][ConcNext]_vars

\* the event loop runs every handler that is ready, and a sleep ends
ConcFairness ==
  /\ WF_vars(Dispatch)
  /\ \A r \in ConcurrentRequests : SF_vars(RunTask(r)) /\ SF_vars(Wake(r))

ConcFairSpec == ConcSpec /\ ConcFairness

\* ---------------------------------------------------------------------
\* C24: when the create requests in flight record the same "namespace/name"
\* key, the registry holds exactly one entry for that key, the entry of the
\* record that executed last, and a record leaves the entries of all other
\* keys as they were.
KeyOf(r) == ResourceKey(r.name, r.namespace)

\* q ran after r and replaced or swept what r recorded
Overrides(q, r) ==
  /\ tasks[q].at > tasks[r].at
  /\ \/ tasks[q].recorded /\ KeyOf(q) = KeyOf(r)
     \/ q.tool = "cleanup_resources"

LastRecord(r) ==
  /\ tasks[r].recorded
  /\ \A q \in DOMAIN tasks \ {r} : ~Overrides(q, r)

EntriesOf(reg, key) == {i \in 1..Len(reg) : reg[i].key = key}

RecordingTools == {"create_deployment", "create_pod", "expose_deployment"}

C24_LastRecordWins ==
  /\ \A r \in DOMAIN tasks :
       LastRecord(r) =>
         /\ Cardinality(EntriesOf(tracked, KeyOf(r))) = 1
         /\ \A i \in EntriesOf(tracked, KeyOf(r)) :
              tracked[i].value = Entry(r.kind, r.name, r.namespace)
  /\ (op \in RecordingTools /\ DOMAIN tasks # {}) =>
       LET own == ResourceKey(input.name, input.namespace)
       IN  /\ \A i \in 1..Len(before) :
                before[i].key # own => \E j \in 1..Len(tracked) : tracked[j] = before[i]
           /\ \A j \in 1..Len(tracked) :
                tracked[j].key # own => \E i \in 1..Len(before) : before[i] = tracked[j]

C24_TwoRecordsOneKey ==
  \E r \in DOMAIN tasks, q \in DOMAIN tasks :
    /\ r # q /\ KeyOf(r) = KeyOf(q)
    /\ tasks[r].recorded /\ tasks[q].recorded
    /\ tasks[q].at > tasks[r].at
    /\ LastRecord(q)
    /\ Tracks(tracked, q) /\ ~Tracks(tracked, r)
    /\ \E i \in 1..Len(tracked) : tracked[i].key # KeyOf(q)

\* ---------------------------------------------------------------------
\* C25: whatever the order in which the handlers of a sweep and of create
\* requests in flight get to run, an entry a request recorded (and no later
\* record of its key replaced) is either one the sweep has issued the delete
\* of, or is in the registry.
Replaced(r) ==
  \E q \in DOMAIN tasks \ {r} :
    tasks[q].at > tasks[r].at /\ tasks[q].recorded /\ KeyOf(q) = KeyOf(r)

C27_EveryOperationReturns ==
  \A r \in ConcurrentRequests :
    (r \in DOMAIN tasks) ~> (r \in DOMAIN tasks /\ tasks[r].pc = "returned")

C27_CreatesReturn ==
  \E r \in DOMAIN tasks :
    /\ r.tool = "expose_deployment"
    /\ tasks[r].pc = "returned"
    /\ tasks[r].recorded
    /\ result = Text(<<<<"Service", r.name, "created">>>>)

====
